---- MODULE Spec2Model ----
(***************************************************************************)
(* Model of adsdata/process.py (class Processor): conversion of the raw   *)
(* per-bibcode mapping into the nonbib record, the data-link row builder  *)
(* and merger, the metrics computation and the batch loop.                *)
(*                                                                         *)
(* Python values whose type the code inspects are tagged records           *)
(* [t |-> "bool" | "int" | "str" | "list" | "dict", v |-> payload].        *)
(* Python str values that are formatted, concatenated or sorted are        *)
(* sequences of character codes; dicts are functions on their keys.        *)
(* Dict iteration follows insertion order.                                 *)
(***************************************************************************)
EXTENDS Integers, Sequences, FiniteSets, TLC

VARIABLES
    pc,               \* position of the operation under study
    lk_filetype,      \* _convert_data_link: argument filetype
    lk_value,         \* _convert_data_link: argument value
    lk_d,             \* _convert_data_link: outcome
    rows_in,          \* _merge_data_links: argument datalinks
    rows_out,         \* _merge_data_links: outcome
    rows_again,       \* _merge_data_links applied to its own result
    passed,           \* _convert: argument passed (the raw mapping)
    converted,        \* _convert: outcome
    cache,            \* memory_cache.Cache: refereed, reference, citation
    today,            \* datetime.today().year
    m_d,              \* _compute_metrics: argument d
    met,              \* _compute_metrics: outcome
    bibcodes,         \* process_bibcodes: argument bibcodes
    compute_metrics,  \* Processor.compute_metrics
    idx,              \* process_bibcodes: index of the next bibcode of the loop
    nonbib_protos,    \* process_bibcodes: nonbib_protos.nonbib_records
    metrics_protos,   \* process_bibcodes: metrics_protos.metrics_records
    output_nonbib,    \* batches handed to tasks.task_output_nonbib.delay
    output_metrics,   \* batches handed to tasks.task_output_metrics.delay
    outcome           \* per iteration: "" or the exception logged at line 47

vars == <<pc, lk_filetype, lk_value, lk_d, rows_in, rows_out, rows_again,
          passed, converted, cache, today, m_d, met, bibcodes, compute_metrics,
          idx, nonbib_protos, metrics_protos, output_nonbib, output_metrics,
          outcome>>

None == [t |-> "none"]

linkVars    == <<lk_filetype, lk_value, lk_d>>
mergeVars   == <<rows_in, rows_out, rows_again>>
convertVars == <<passed, converted>>
metricsVars == <<m_d, met>>
cacheVars   == <<cache, today>>
batchVars   == <<bibcodes, compute_metrics, idx, nonbib_protos, metrics_protos,
                 output_nonbib, output_metrics, outcome>>

LinkIdle    == lk_filetype = "" /\ lk_value = None /\ lk_d = None
MergeIdle   == rows_in = <<>> /\ rows_out = None /\ rows_again = None
ConvertIdle == passed = None /\ converted = None
MetricsIdle == m_d = None /\ met = None
CacheIdle   == cache = None /\ today = 0
BatchIdle   == /\ bibcodes = <<>> /\ compute_metrics = FALSE /\ idx = 0
               /\ nonbib_protos = <<>> /\ metrics_protos = <<>>
               /\ output_nonbib = <<>> /\ output_metrics = <<>> /\ outcome = <<>>


----------------------------------------------------------------------------
(* Python values *)

PyBool(b) == [t |-> "bool", v |-> b]
PyInt(n)  == [t |-> "int",  v |-> n]
PyStr(s)  == [t |-> "str",  v |-> s]
PyList(l) == [t |-> "list", v |-> l]
PyDict(f) == [t |-> "dict", v |-> f]

EmptyDict == [k \in {} |-> None]

\* a == b of Python on tagged values (True == 1 and False == 0 included)
PyEq(a, b) ==
    IF a.t = b.t THEN a.v = b.v
    ELSE IF a.t = "bool" /\ b.t = "int" THEN b.v = (IF a.v THEN 1 ELSE 0)
    ELSE IF a.t = "int" /\ b.t = "bool" THEN a.v = (IF b.v THEN 1 ELSE 0)
    ELSE FALSE

\* F applied to the value of x (x is evaluated once, as an assignment does)
Bind(x, F(_)) == CHOOSE r \in {F(y) : y \in {x}} : TRUE

\* outcome of a call: exc = "" when it returned, else the exception raised;
\* logged counts the logger.error calls it made
Returned(x, n) == [exc |-> "", val |-> x, logged |-> n]
Raised(e, n)   == [exc |-> e, val |-> None, logged |-> n]

----------------------------------------------------------------------------
(* Python str as sequences of character codes *)

s_DATA         == <<68, 65, 84, 65>>
s_ESOURCE      == <<69, 83, 79, 85, 82, 67, 69>>
s_CDS          == <<67, 68, 83>>
s_NED          == <<78, 69, 68>>
s_ADS_PDF      == <<65, 68, 83, 95, 80, 68, 70>>
s_REFEREED     == <<82, 69, 70, 69, 82, 69, 69, 68>>
s_NOT_REFEREED == <<78, 79, 84, 32, 82, 69, 70, 69, 82, 69, 69, 68>>
s_ARTICLE      == <<65, 82, 84, 73, 67, 76, 69>>
s_NONARTICLE   == <<78, 79, 78, 65, 82, 84, 73, 67, 76, 69>>
s_OPENACCESS   == <<79, 80, 69, 78, 65, 67, 67, 69, 83, 83>>
s_colon        == <<58>>
s_space        == <<32>>

Digit(n) == 48 + n

\* str(n) for n >= 0
RECURSIVE str(_)
str(n) == IF n < 10 THEN <<Digit(n)>> ELSE str(n \div 10) \o <<Digit(n % 10)>>

\* a < b of Python on str: by the first differing character, a proper
\* prefix being the smaller
StrLess(a, b) ==
    \/ Len(a) < Len(b) /\ \A j \in 1..Len(a) : a[j] = b[j]
    \/ \E i \in 1..(IF Len(a) < Len(b) THEN Len(a) ELSE Len(b)) :
            a[i] < b[i] /\ \A j \in 1..(i - 1) : a[j] = b[j]

\* sorted(l), l a list of str: the element at index i goes to the place
\* after the elements that are smaller, or equal and earlier
sorted_value(l) ==
    LET place(i) == 1 + Cardinality({j \in 1..Len(l) :
                          StrLess(l[j], l[i]) \/ (l[j] = l[i] /\ j < i)})
    IN  [p \in 1..Len(l) |-> l[CHOOSE i \in 1..Len(l) : place(i) = p]]

sorted(l) == Bind(l, LAMBDA x : sorted_value(x))

\* sorted(S), S a set of str
sorted_set_value(S) ==
    [p \in 1..Cardinality(S) |->
        CHOOSE x \in S : Cardinality({y \in S : StrLess(y, x)}) = p - 1]

sorted_set(S) == Bind(S, LAMBDA x : sorted_set_value(x))

----------------------------------------------------------------------------
(* adsdata.file_defs.data_files: the field definition table.  The table    *)
(* itself is configuration that process.py imports; this one has one entry *)
(* of every shape the spec's FieldDefinition allows.                       *)

data_files ==
    [ canonical  |-> [default_value |-> PyStr(<<>>)],
      author     |-> [default_value |-> PyList(<<>>)],
      nonarticle |-> [default_value |-> PyBool(FALSE),
                      extra_values  |-> [property |-> {s_NONARTICLE}]],
      refereed   |-> [default_value |-> PyBool(FALSE),
                      extra_values  |-> [property |-> {s_REFEREED}]],
      ads_pdf    |-> [default_value |-> PyBool(FALSE),
                      extra_values  |-> [link_type     |-> s_ESOURCE,
                                         link_sub_type |-> s_ADS_PDF,
                                         property      |-> {s_OPENACCESS}]],
      data_link  |-> [default_value |-> PyList(<<>>),
                      extra_values  |-> [link_type |-> s_DATA,
                                         property  |-> {s_DATA}]],
      grants     |-> [default_value |-> PyList(<<>>)],
      reference  |-> [default_value |-> PyList(<<>>), copy_default |-> TRUE],
      relevance  |-> [default_value |-> PyDict(EmptyDict)],
      reads      |-> [default_value |-> PyList(<<>>)],
      download   |-> [default_value |-> PyList(<<>>)] ]

\* data_files.keys(), in table order
data_files_keys ==
    <<"canonical", "author", "nonarticle", "refereed", "ads_pdf", "data_link",
      "grants", "reference", "relevance", "reads", "download">>

----------------------------------------------------------------------------
(* Processor._convert_data_link *)

\* `value is dict`: identity of the value with the type object dict, which
\* no value read from a data file is
value_is_dict(value) == FALSE

\* `'link_sub_type' in value`, value a str: substring test.  The str values
\* of the model are opaque and do not contain it.
str_contains_link_sub_type(s) == FALSE

link_sub_type_suffix(value) ==
    IF /\ value_is_dict(value)
       /\ "subparts" \in DOMAIN value.v
       /\ "item_count" \in DOMAIN value.v.subparts
    THEN s_space \o str(value.v.subparts.item_count)
    ELSE <<>>

\* `'link_sub_type' in value`: "TypeError" where the operand is not iterable
link_sub_type_in(value) ==
    CASE value.t = "dict" -> Returned("link_sub_type" \in DOMAIN value.v, 0)
      [] value.t = "str"  -> Returned(str_contains_link_sub_type(value.v), 0)
      [] value.t = "list" -> Returned(FALSE, 0)
      [] OTHER            -> Raised("TypeError", 0)

url_or_title(value, k) ==
    LET x == IF k \in DOMAIN value.v THEN value.v[k] ELSE PyList(<<"">>)
    IN  IF x.t = "str" THEN <<x.v>> ELSE x.v

_convert_data_link(filetype, value) ==
    LET file_properties == data_files[filetype]
        ev     == file_properties.extra_values
        d0     == [k \in {"link_type"} |-> ev.link_type]
        suffix == link_sub_type_suffix(value)
        is_true == value.t = "bool" /\ value.v = TRUE
        has    == IF is_true THEN Returned(FALSE, 0) ELSE link_sub_type_in(value)
        d1     == IF is_true
                  THEN d0 @@ [k \in {"link_sub_type"} |-> ev.link_sub_type \o suffix]
                  ELSE IF has.exc = "" /\ has.val
                  THEN d0 @@ [k \in {"link_sub_type"} |-> value.v.link_sub_type \o suffix]
                  ELSE IF "link_sub_type" \in DOMAIN ev
                  THEN d0 @@ [k \in {"link_sub_type"} |-> ev.link_sub_type \o suffix]
                  ELSE d0
    IN  IF is_true /\ "link_sub_type" \notin DOMAIN ev THEN Raised("KeyError", 0)
        ELSE IF has.exc # "" THEN has
        ELSE IF value.t = "bool"
        THEN Returned(d1 @@ [url |-> <<"">>, title |-> <<"">>, item_count |-> 0], 0)
        ELSE IF value.t = "dict"
        THEN Returned(d1 @@ [url   |-> url_or_title(value, "url"),
                             title |-> url_or_title(value, "title"),
                             item_count |-> IF "item_count" \in DOMAIN value.v
                                            THEN value.v.item_count ELSE 0], 0)
        ELSE Returned(d1, 1)

----------------------------------------------------------------------------
(* Processor._merge_data_links *)

\* "{}:{}".format(d['link_type'], d['link_sub_type'])
\* a grouping key that leaves the link type out
key_of_sub_type(d) == d.link_sub_type

key(d) == d.link_type \o s_colon \o d.link_sub_type

RECURSIVE keys_in_order(_)
keys_in_order(datalinks) ==
    IF datalinks = <<>> THEN <<>>
    ELSE LET k == key(datalinks[1])
             rest == keys_in_order(Tail(datalinks))
         IN  <<k>> \o SelectSeq(rest, LAMBDA x : x # k)

\* grouped: the keys in first-insertion order, and the list kept under each
grouped(datalinks) ==
    LET ks == keys_in_order(datalinks)
    IN  [i \in 1..Len(ks) |-> SelectSeq(datalinks, LAMBDA d : key(d) = ks[i])]

RECURSIVE ConcatField(_, _)
ConcatField(matches, f) ==
    IF matches = <<>> THEN <<>> ELSE matches[1][f] \o ConcatField(Tail(matches), f)

RECURSIVE SumItemCount(_)
SumItemCount(ms) ==
    IF ms = <<>> THEN 0
    ELSE (IF "item_count" \in DOMAIN ms[1] THEN ms[1].item_count ELSE 1)
         + SumItemCount(Tail(ms))

\* the rows one group contributes to new_datalinks
\* a merge of a group that extends the first row and keeps the rows merged into it
MergeGroupKeepingMatches(matches) ==
    IF Len(matches) = 1 THEN Returned(<<matches[1]>>, 0)
    ELSE IF \E i \in 1..Len(matches) :
                {"url", "title", "item_count"} \ DOMAIN matches[i] # {}
    THEN Raised("KeyError", 0)
    ELSE Returned(<<[matches[1] EXCEPT
                       !.url = ConcatField(matches, "url"),
                       !.title = ConcatField(matches, "title"),
                       !.item_count = matches[1].item_count
                                        + SumItemCount(Tail(matches))]>>
                  \o Tail(matches), 0)

MergeGroup(matches) ==
    IF Len(matches) = 1 THEN Returned(<<matches[1]>>, 0)
    ELSE LET first == matches[1]
             rest  == Tail(matches)
         IN  IF \/ {"url", "title", "item_count"} \ DOMAIN first # {}
                \/ \E i \in 1..Len(rest) : {"url", "title"} \ DOMAIN rest[i] # {}
             THEN Raised("KeyError", 0)
             ELSE Returned(<<[first EXCEPT
                                !.url = ConcatField(matches, "url"),
                                !.title = ConcatField(matches, "title"),
                                !.item_count = first.item_count + SumItemCount(rest)]>>, 0)

\* the loop of lines 162-173 from the i-th group on
RECURSIVE MergeGroups(_, _)
MergeGroups(g, i) ==
    IF i > Len(g) THEN Returned(<<>>, 0)
    ELSE Bind(MergeGroup(g[i]), LAMBDA here :
            IF here.exc # "" THEN here
            ELSE Bind(MergeGroups(g, i + 1), LAMBDA more :
                    IF more.exc # "" THEN more
                    ELSE Returned(here.val \o more.val, 0)))

_merge_data_links(datalinks) ==
    IF \E i \in 1..Len(datalinks) :
            {"link_type", "link_sub_type"} \ DOMAIN datalinks[i] # {}
    THEN Raised("KeyError", 0)
    ELSE Bind(grouped(datalinks), LAMBDA g :
            IF Len(g) = Len(datalinks) THEN Returned(datalinks, 0)
            ELSE MergeGroups(g, 1))

----------------------------------------------------------------------------
(* Processor._convert and its helpers *)

Put(f, k, x) == [j \in {k} |-> x] @@ f
Pop(f, ks)   == [j \in DOMAIN f \ ks |-> f[j]]
Max(a, b)    == IF a > b THEN a ELSE b

\* bool(x) of Python
Truthy(x) ==
    CASE x.t = "bool" -> x.v
      [] x.t = "int"  -> x.v # 0
      [] x.t = "dict" -> DOMAIN x.v # {}
      [] OTHER        -> Len(x.v) # 0

not_needed ==
    {"author", "canonical", "citation", "download", "item_count", "nonarticle",
     "ocrabstract", "private", "pub_openaccess", "reads", "refereed", "relevance",
     "toc"}

\* the keys of passed in insertion order: _read_next_bibcode inserts
\* canonical, then one key per reader in data_files.keys() order
passed_keys(original) == SelectSeq(data_files_keys, LAMBDA k : k \in DOMAIN original)

\* value[filetype] of lines 72-73, for a field whose default is a bool
unwrap(filetype, value) ==
    IF value.t # "dict" THEN Raised("TypeError", 0)
    ELSE IF filetype \notin DOMAIN value.v THEN Raised("KeyError", 0)
    ELSE Returned(value.v[filetype], 0)

\* the loop of lines 82-84
RECURSIVE convert_each(_, _, _)
convert_each(filetype, vs, i) ==
    IF i > Len(vs) THEN Returned(<<>>, 0)
    ELSE Bind(_convert_data_link(filetype, vs[i]), LAMBDA d :
            IF d.exc # "" THEN d
            ELSE Bind(convert_each(filetype, vs, i + 1), LAMBDA more :
                    IF more.exc # "" THEN Raised(more.exc, d.logged + more.logged)
                    ELSE Returned(<<d.val>> \o more.val, d.logged + more.logged)))

\* lines 78-86: the rows one link-typed value contributes
link_rows(filetype, value) ==
    IF value.t \in {"bool", "dict"}
    THEN Bind(_convert_data_link(filetype, value), LAMBDA d :
            IF d.exc # "" THEN d ELSE Returned(<<d.val>>, d.logged))
    ELSE IF value.t = "list" THEN convert_each(filetype, value.v, 1)
    ELSE Returned(<<>>, 1)

\* one iteration of the loop of lines 65-102 on the accumulated return_value
convert_field(return_value, original, filetype) ==
    LET file_properties == data_files[filetype]
        dflt   == file_properties.default_value
        isbool == dflt.t = "bool"
        raw    == original[filetype]
        inner  == IF isbool THEN unwrap(filetype, raw) ELSE Returned(raw, 0)
        value  == inner.val
        rv1    == IF filetype = "canonical"
                  THEN Put(return_value, "bibcode", original["canonical"])
                  ELSE return_value
        rv2    == IF isbool THEN Put(rv1, filetype, value) ELSE rv1
        has_ev == "extra_values" \in DOMAIN file_properties
        ev     == file_properties.extra_values
        differs == ~PyEq(value, dflt)
        lifted(rv) ==
            IF filetype = "relevance"
            THEN [k \in DOMAIN raw.v |-> raw.v[k]] @@ rv
            ELSE rv
    IN  IF inner.exc # "" THEN inner
        ELSE IF has_ev /\ "link_type" \in DOMAIN ev /\ differs
        THEN LET es   == IF ev.link_type = s_ESOURCE
                         THEN rv2.esource \cup {ev.link_sub_type}
                         ELSE rv2.esource
                 pr   == rv2.property \cup {ev.link_type}
                         \cup (IF "property" \in DOMAIN ev THEN ev.property ELSE {})
             IN  Bind(link_rows(filetype, value), LAMBDA rows :
                    IF rows.exc # "" THEN rows
                    ELSE IF ev.link_type = s_ESOURCE /\ "link_sub_type" \notin DOMAIN ev
                    THEN Raised("KeyError", rows.logged)
                    ELSE Returned(lifted([rv2 EXCEPT
                                     !.data_links_rows = @ \o rows.val,
                                     !.esource = es,
                                     !.property = pr]), rows.logged))
        ELSE IF has_ev /\ differs
        THEN Returned(lifted(IF "property" \in DOMAIN ev
                             THEN [rv2 EXCEPT !.property = @ \cup ev.property]
                             ELSE rv2), 0)
        ELSE IF differs \/ ("copy_default" \in DOMAIN file_properties
                            /\ file_properties.copy_default)
        THEN Returned(lifted(Put(rv2, filetype, raw)), 0)
        ELSE Returned(lifted(rv2), 0)

RECURSIVE convert_loop(_, _, _, _, _)
convert_loop(return_value, original, ks, i, logged) ==
    IF i > Len(ks) THEN Returned(return_value, logged)
    ELSE Bind(convert_field(return_value, original, ks[i]), LAMBDA step :
            IF step.exc # "" THEN Raised(step.exc, logged + step.logged)
            ELSE convert_loop(step.val, original, ks, i + 1, logged + step.logged))

_add_refereed_property(property) ==
    IF s_REFEREED \notin property THEN property \cup {s_NOT_REFEREED} ELSE property

\* the property _add_article_property adds; "KeyError" when the wrapped
\* value has no nonarticle key
_add_article_property(original) ==
    LET x == IF "nonarticle" \in DOMAIN original THEN original["nonarticle"]
             ELSE PyBool(FALSE)
    IN  IF x.t = "dict" /\ "nonarticle" \notin DOMAIN x.v THEN Raised("KeyError", 0)
        ELSE LET y == IF x.t = "dict" THEN x.v["nonarticle"] ELSE x
             IN  Returned(IF Truthy(y) THEN s_NONARTICLE ELSE s_ARTICLE, 0)

RECURSIVE data_value(_)
data_value(rows) ==
    IF rows = <<>> THEN <<>>
    ELSE LET r == rows[1]
         IN  (IF r.link_type = s_DATA
              THEN <<r.link_sub_type \o s_colon
                     \o str(IF "item_count" \in DOMAIN r THEN r.item_count ELSE 0)>>
              ELSE <<>>) \o data_value(Tail(rows))

RECURSIVE total_link_counts(_)
total_link_counts(rows) ==
    IF rows = <<>> THEN 0
    ELSE LET r == rows[1]
         IN  (IF r.link_type = s_DATA /\ "item_count" \in DOMAIN r
              THEN r.item_count ELSE 0) + total_link_counts(Tail(rows))

\* the data and total_link_counts fields, from the rows held at the call
_add_data_summary(rows) ==
    IF \E i \in 1..Len(rows) :
            rows[i].link_type = s_DATA /\ "link_sub_type" \notin DOMAIN rows[i]
    THEN Raised("KeyError", 0)
    ELSE Returned([data |-> sorted(data_value(rows)),
                   total_link_counts |-> total_link_counts(rows)], 0)

\* citation_count / float(max(author_count, 1)), kept as a fraction
_add_citation_count_norm_field(return_value, original) ==
    LET author_count == IF "author" \in DOMAIN original
                        THEN Len(original["author"].v) ELSE 0
        citation_count == IF "citation_count" \in DOMAIN return_value
                          THEN return_value["citation_count"] ELSE 0
    IN  [num |-> citation_count, den |-> Max(author_count, 1)]

\* lines 104-117, on the return_value the loop left
convert_finish(rv, original, logged) ==
    Bind(_add_article_property(original), LAMBDA art :
      IF art.exc # "" THEN Raised(art.exc, logged)
      ELSE Bind(_add_data_summary(rv.data_links_rows), LAMBDA summ :
        IF summ.exc # "" THEN Raised(summ.exc, logged)
        ELSE Bind(_merge_data_links(rv.data_links_rows), LAMBDA mrg :
          IF mrg.exc # "" THEN Raised(mrg.exc, logged)
          ELSE LET prop == _add_refereed_property(rv.property) \cup {art.val}
                   rv3  == [k \in {"data"} |-> summ.val.data]
                           @@ [k \in {"total_link_counts"} |-> summ.val.total_link_counts]
                           @@ [rv EXCEPT !.property = sorted_set(prop),
                                         !.esource = sorted_set(rv.esource),
                                         !.data_links_rows = mrg.val]
                   rv4  == Put(rv3, "citation_count_norm",
                               _add_citation_count_norm_field(rv3, original))
               IN  Returned(Pop(rv4, not_needed), logged))))

_convert(original) ==
    LET rv0 == [data_links_rows |-> <<>>, property |-> {}, esource |-> {}]
    IN  Bind(convert_loop(rv0, original, passed_keys(original), 1, 0), LAMBDA loop :
            IF loop.exc # "" THEN loop
            ELSE convert_finish(loop.val, original, loop.logged))

----------------------------------------------------------------------------
(* Processor._compute_metrics *)

Frac(n, d) == [num |-> n, den |-> d]
AddFrac(a, b) == Frac(a.num * b.den + b.num * a.den, a.den * b.den)

RECURSIVE DigitsValue(_, _)
DigitsValue(y, n) ==
    IF n = 0 THEN 0 ELSE 10 * DigitsValue(y, n - 1) + (y[n] - 48)

\* int(s[:4]): "ValueError" unless the slice is a non-empty run of digits
int_of_first4(s) ==
    LET y == SubSeq(s, 1, IF Len(s) < 4 THEN Len(s) ELSE 4)
    IN  IF y # <<>> /\ \A i \in 1..Len(y) : y[i] \in 48..57
        THEN Returned(DigitsValue(y, Len(y)), 0)
        ELSE Raised("ValueError", 0)

\* bibcode_to_references[b], bibcode_to_cites[b]: the list kept for b, empty
\* when the snapshot has none
cache_lookup(mapping, b) == IF b \in DOMAIN mapping THEN mapping[b] ELSE <<>>

\* a test that takes every citing bibcode for a refereed one
citation_always_refereed(citation_bibcode, snapshot) == TRUE

\* line 255
citation_refereed(citation_bibcode, snapshot) == citation_bibcode \in snapshot.refereed

\* the loop of lines 254-266 from the i-th citation on
RECURSIVE citation_loop(_, _, _, _, _)
citation_loop(citations, i, bibcode, author_num, snapshot) ==
    IF i > Len(citations)
    THEN Returned([citations_json_records |-> <<>>,
                   total_normalized_citations |-> Frac(0, 1),
                   refereed_citations |-> <<>>], 0)
    ELSE LET citation_bibcode == citations[i]
             len_citation_reference ==
                 Len(cache_lookup(snapshot.reference, citation_bibcode))
             citation_normalized_references ==
                 Frac(1, Max(5, len_citation_reference))
             pubyear == int_of_first4(bibcode)
             cityear == int_of_first4(citation_bibcode)
             tmp_json == [bibcode   |-> citation_bibcode,
                          ref_norm  |-> citation_normalized_references,
                          auth_norm |-> Frac(1, author_num),
                          pubyear   |-> pubyear.val,
                          cityear   |-> cityear.val]
         IN  IF pubyear.exc # "" THEN pubyear
             ELSE IF cityear.exc # "" THEN cityear
             ELSE Bind(citation_loop(citations, i + 1, bibcode, author_num, snapshot),
                       LAMBDA more :
                  IF more.exc # "" THEN more
                  ELSE Returned(
                    [citations_json_records |->
                        <<tmp_json>> \o more.val.citations_json_records,
                     total_normalized_citations |->
                        AddFrac(citation_normalized_references,
                                more.val.total_normalized_citations),
                     refereed_citations |->
                        (IF citation_refereed(citation_bibcode, snapshot)
                         THEN <<citation_bibcode>> ELSE <<>>)
                        \o more.val.refereed_citations], 0))

_compute_metrics(d, snapshot, year) ==
    LET bibcode    == d["canonical"].v
        author_num == IF "author" \in DOMAIN d /\ Truthy(d["author"])
                      THEN Max(Len(d["author"].v), 1) ELSE 1
        citations  == cache_lookup(snapshot.citation, bibcode)
        citation_num  == IF citations # <<>> THEN Len(citations) ELSE 0
        reference_num == Len(cache_lookup(snapshot.reference, bibcode))
        pubyear    == int_of_first4(bibcode)
        resource_age == Max(1, year - pubyear.val + 1)
    IN  Bind(citation_loop(citations, 1, bibcode, author_num, snapshot), LAMBDA loop :
          IF loop.exc # "" THEN loop
          ELSE IF pubyear.exc # "" THEN pubyear
          ELSE IF {"reads", "download"} \ DOMAIN d # {} THEN Raised("KeyError", 0)
          ELSE LET refereed_citations == loop.val.refereed_citations
                   refereed_citation_num == Len(refereed_citations)
               IN  Returned(
                     [bibcode               |-> bibcode,
                      an_citations          |-> Frac(citation_num, resource_age),
                      an_refereed_citations |-> Frac(refereed_citation_num, resource_age),
                      author_num            |-> author_num,
                      citation_num          |-> citation_num,
                      citations             |-> citations,
                      downloads             |-> d["download"],
                      modtime               |-> year,
                      reads                 |-> d["reads"],
                      refereed              |-> bibcode \in snapshot.refereed,
                      refereed_citations    |-> refereed_citations,
                      refereed_citation_num |-> refereed_citation_num,
                      reference_num         |-> reference_num,
                      rn_citations          |-> loop.val.total_normalized_citations,
                      rn_citation_data      |-> loop.val.citations_json_records], 0))

----------------------------------------------------------------------------
(* Processor.process_bibcodes: one iteration of the loop of lines 36-48 *)

\* the try block for one bibcode, `read` being what _read_next_bibcode did.
\* NonBibRecord(**converted) and MetricsRecord(**met) are adsmsg constructors;
\* nonbib_ok and metrics_ok tell whether they returned.
try_bibcode(read, with_metrics, snapshot, year, nonbib_ok, metrics_ok) ==
    IF read.exc # "" THEN [exc |-> read.exc, nonbib |-> <<>>, metrics |-> <<>>]
    ELSE Bind(_convert(read.val), LAMBDA conv :
      IF conv.exc # "" THEN [exc |-> conv.exc, nonbib |-> <<>>, metrics |-> <<>>]
      ELSE IF ~nonbib_ok THEN [exc |-> "ValueError", nonbib |-> <<>>, metrics |-> <<>>]
      ELSE IF ~with_metrics THEN [exc |-> "", nonbib |-> <<conv.val>>, metrics |-> <<>>]
      ELSE Bind(_compute_metrics(read.val, snapshot, year), LAMBDA m :
        IF m.exc # "" THEN [exc |-> m.exc, nonbib |-> <<conv.val>>, metrics |-> <<>>]
        ELSE IF ~metrics_ok
        THEN [exc |-> "ValueError", nonbib |-> <<conv.val>>, metrics |-> <<>>]
        ELSE [exc |-> "", nonbib |-> <<conv.val>>, metrics |-> <<m.val>>]))

----------------------------------------------------------------------------
(* Inputs of the data-link builder and merger *)

MaxUrlLen == 2
MaxItemCount == 2
MaxRows == 3

Urls == {"u1", "u2"}
SeqsUpTo(S, n) == UNION {[1..k -> S] : k \in 0..n}

\* a function on any subset of Keys, key k ranging over Range[k]
RECURSIVE PartialRecords(_, _)
PartialRecords(Keys, Range) ==
    IF Keys = {} THEN {EmptyDict}
    ELSE LET k == CHOOSE x \in Keys : TRUE
             rest == PartialRecords(Keys \ {k}, Range)
         IN  rest \cup {[j \in {k} |-> x] @@ r : x \in Range[k], r \in rest}

UrlShapes == {PyStr(u) : u \in Urls} \cup {PyList(l) : l \in SeqsUpTo(Urls, MaxUrlLen) \ {<<>>}}

LinkDicts ==
    PartialRecords({"link_sub_type", "url", "title", "item_count", "subparts"},
                   [link_sub_type |-> {s_CDS, s_NED},
                    url           |-> UrlShapes,
                    title         |-> {PyStr("t1"), PyList(<<"t1", "t2">>)},
                    item_count    |-> 1..MaxItemCount,
                    subparts      |-> {[item_count |-> 3], EmptyDict}])

LinkValues ==
    {PyBool(TRUE), PyBool(FALSE), PyInt(5), PyStr("x")} \cup {PyDict(f) : f \in LinkDicts}

LinkFiletypes == {"ads_pdf", "data_link"}

\* rows as the builder returns them: complete ones, and the bare row it
\* returns for a value of unexpected type
MergeRows ==
    {[link_type |-> lt, link_sub_type |-> st, url |-> ut[1], title |-> ut[2], item_count |-> n] :
        lt \in {s_DATA, s_ESOURCE}, st \in {s_CDS, s_NED},
        ut \in {<<<<"u1">>, <<"t1">>>>, <<<<"u2", "u1">>, <<"">>>>}, n \in {0, MaxItemCount}}
    \cup {[link_type |-> s_DATA, link_sub_type |-> s_CDS]}

----------------------------------------------------------------------------
(* The builder and the merger applied to drawn inputs *)

InitLink ==
    /\ pc = "link"
    /\ lk_filetype \in LinkFiletypes
    /\ lk_value \in LinkValues
    /\ lk_d = None
    /\ MergeIdle /\ ConvertIdle /\ MetricsIdle /\ CacheIdle /\ BatchIdle

ConvertDataLink ==
    /\ pc = "link"
    /\ lk_d' = _convert_data_link(lk_filetype, lk_value)
    /\ pc' = "linked"
    /\ UNCHANGED <<lk_filetype, lk_value, mergeVars, convertVars, metricsVars,
                   cacheVars, batchVars>>

NextLink == ConvertDataLink

SpecLink == InitLink /\ [][NextLink]_vars

InitMerge ==
    /\ pc = "merge"
    /\ rows_in \in SeqsUpTo(MergeRows, MaxRows)
    /\ rows_out = None /\ rows_again = None
    /\ LinkIdle /\ ConvertIdle /\ MetricsIdle /\ CacheIdle /\ BatchIdle

MergeDataLinks ==
    /\ pc = "merge"
    /\ rows_out' = _merge_data_links(rows_in)
    /\ pc' = "merged"
    /\ UNCHANGED <<linkVars, convertVars, metricsVars, cacheVars, batchVars,
                   rows_in, rows_again>>

MergeAgain ==
    /\ pc = "merged"
    /\ rows_out.exc = ""
    /\ rows_again' = _merge_data_links(rows_out.val)
    /\ pc' = "remerged"
    /\ UNCHANGED <<linkVars, convertVars, metricsVars, cacheVars, batchVars,
                   rows_in, rows_out>>

NextMerge == MergeDataLinks \/ MergeAgain

SpecMerge == InitMerge /\ [][NextMerge]_vars

----------------------------------------------------------------------------
(* Inputs of _convert: raw mappings as _read_next_bibcode assembles them *)

MaxList == 2

b_2020A == <<50, 48, 50, 48, 65>>
b_2021B == <<50, 48, 50, 49, 66>>
b_X     == <<88>>

Wrapped(filetype, x) == PyDict([k \in {filetype} |-> x])

\* elements of the data_link list: well-formed maps of each url/title shape,
\* a flag, and the malformed elements (a number, a str, a map without
\* link_sub_type)
DataLinkElems ==
    { PyDict([link_sub_type |-> s_CDS, url |-> PyList(<<"u1">>),
              title |-> PyList(<<"t1">>), item_count |-> 1]),
      PyDict([link_sub_type |-> s_CDS, url |-> PyStr("u2"),
              title |-> PyStr("t2"), item_count |-> 2]),
      PyDict([link_sub_type |-> s_NED, item_count |-> 10]),
      PyDict([link_sub_type |-> s_NED, url |-> PyList(<<>>),
              title |-> PyList(<<"t1">>), item_count |-> 2]),
      PyDict([link_sub_type |-> s_CDS, url |-> PyList(<<"u1">>),
              title |-> PyList(<<"t1">>), subparts |-> [item_count |-> 3]]),
      PyDict([url |-> PyList(<<"u1">>), title |-> PyList(<<"t1">>), item_count |-> 1]),
      PyBool(TRUE),
      PyInt(5),
      PyStr("x") }

DataLinkValues ==
    {PyList(l) : l \in SeqsUpTo(DataLinkElems, MaxList)}
    \cup {PyInt(5),
          PyDict([link_sub_type |-> s_NED, url |-> PyStr("u1"),
                  title |-> PyStr("t1"), item_count |-> 1])}

AdsPdfValues ==
    {Wrapped("ads_pdf", PyBool(FALSE)), Wrapped("ads_pdf", PyBool(TRUE)),
     Wrapped("ads_pdf", PyInt(5)), PyInt(5)}

RawRecord(bibcode, au, na, rf, gr, rel, ap, dl) ==
    [canonical  |-> PyStr(bibcode),
     author     |-> au,
     nonarticle |-> Wrapped("nonarticle", PyBool(na)),
     refereed   |-> Wrapped("refereed", PyBool(rf)),
     ads_pdf    |-> ap,
     data_link  |-> dl,
     grants     |-> gr,
     reference  |-> gr,
     relevance  |-> rel,
     reads      |-> PyList(<<3>>),
     download   |-> PyList(<<>>)]

RawRecords ==
    { RawRecord(b_2020A, au, na, rf, gr, rel, ap, dl) :
        au  \in {PyList(<<>>), PyList(<<"a1", "a2">>)},
        na  \in BOOLEAN, rf \in BOOLEAN,
        gr  \in {PyList(<<>>), PyList(<<"g1">>)},
        rel \in {PyDict(EmptyDict), PyDict([citation_count |-> 4])},
        ap  \in AdsPdfValues,
        dl  \in DataLinkValues }
    \cup
    { Pop(RawRecord(b_2020A, PyList(<<>>), FALSE, FALSE, PyList(<<>>),
                    PyDict(EmptyDict), Wrapped("ads_pdf", PyBool(FALSE)), dl),
          {"author", "nonarticle"}) : dl \in DataLinkValues }

----------------------------------------------------------------------------
(* _convert applied to a drawn raw mapping *)

InitConvert ==
    /\ pc = "convert"
    /\ passed \in RawRecords
    /\ converted = None
    /\ LinkIdle /\ MergeIdle /\ MetricsIdle /\ CacheIdle /\ BatchIdle

Convert ==
    /\ pc = "convert"
    /\ converted' = _convert(passed)
    /\ pc' = "converted"
    /\ UNCHANGED <<linkVars, mergeVars, metricsVars, cacheVars, batchVars, passed>>

NextConvert == Convert

SpecConvert == InitConvert /\ [][NextConvert]_vars

----------------------------------------------------------------------------
(* Inputs of _compute_metrics: the raw record and the snapshot *)

MaxCiting == 2
MaxBibcodes == 2

b_2019C == <<50, 48, 49, 57, 67>>

Bibcodes == {b_2020A, b_2021B, b_X}

NoDup(q) == \A i, j \in 1..Len(q) : i # j => q[i] # q[j]

CitingLists == {q \in SeqsUpTo({b_2021B, b_2019C, b_X}, MaxCiting) : NoDup(q)}

ReferenceLists == {<<>>, <<b_2019C, b_2019C, b_2019C>>, [i \in 1..6 |-> b_2019C]}

Snapshots ==
    { [citation |-> c, reference |-> r, refereed |-> f] :
        c \in {EmptyDict} \cup {[b \in {b_2020A} |-> q] : q \in CitingLists \ {<<>>}},
        r \in {EmptyDict} \cup [{b_2020A, b_2021B} -> ReferenceLists],
        f \in SUBSET {b_2020A, b_2021B, b_2019C} }

MetricsRecords ==
    { Pop([canonical |-> PyStr(b), author |-> au,
           reads |-> PyList(<<3>>), download |-> PyList(<<>>)], absent) :
        b \in {b_2020A, b_X},
        au \in {PyList(<<>>), PyList(<<"a1", "a2">>)},
        absent \in {{}, {"author"}, {"reads"}} }

InitMetrics ==
    /\ pc = "metrics"
    /\ m_d \in MetricsRecords
    /\ cache \in Snapshots
    /\ today \in {2020, 2022}
    /\ met = None
    /\ LinkIdle /\ MergeIdle /\ ConvertIdle /\ BatchIdle

ComputeMetrics ==
    /\ pc = "metrics"
    /\ met' = _compute_metrics(m_d, cache, today)
    /\ pc' = "computed"
    /\ UNCHANGED <<linkVars, mergeVars, convertVars, cacheVars, batchVars, m_d>>

NextMetrics == ComputeMetrics

SpecMetrics == InitMetrics /\ [][NextMetrics]_vars

----------------------------------------------------------------------------
(* process_bibcodes *)

\* what _read_next_bibcode can do for a bibcode: the readers are outside
\* this file; a read returns the assembled mapping or raises
_read_next_bibcode(bibcode) ==
    { Raised("IOError", 0) } \cup
    { Returned(r, 0) : r \in
        { RawRecord(bibcode, PyList(<<>>), FALSE, FALSE, PyList(<<>>),
                    PyDict(EmptyDict), Wrapped("ads_pdf", PyBool(FALSE)), PyList(<<>>)),
          RawRecord(bibcode, PyList(<<"a1", "a2">>), FALSE, TRUE, PyList(<<"g1">>),
                    PyDict([citation_count |-> 4]), Wrapped("ads_pdf", PyBool(TRUE)),
                    PyList(<<PyDict([link_sub_type |-> s_CDS, url |-> PyList(<<"u1">>),
                                     title |-> PyList(<<"t1">>), item_count |-> 1])>>)),
          RawRecord(bibcode, PyList(<<>>), FALSE, FALSE, PyList(<<>>),
                    PyDict(EmptyDict), Wrapped("ads_pdf", PyBool(FALSE)),
                    PyList(<<PyInt(5)>>)) } }

BatchSnapshots ==
    { [citation |-> EmptyDict, reference |-> EmptyDict, refereed |-> {}],
      [citation |-> [b \in {b_2020A} |-> <<b_2021B, b_2019C>>],
       reference |-> [b \in {b_2021B} |-> [i \in 1..6 |-> b_2019C]],
       refereed |-> {b_2019C}] }

Init ==
    /\ pc = "loop"
    /\ bibcodes \in SeqsUpTo(Bibcodes, MaxBibcodes)
    /\ compute_metrics \in BOOLEAN
    /\ cache \in BatchSnapshots
    /\ today = 2022
    /\ idx = 1
    /\ nonbib_protos = <<>> /\ metrics_protos = <<>>
    /\ output_nonbib = <<>> /\ output_metrics = <<>>
    /\ outcome = <<>>
    /\ LinkIdle /\ MergeIdle /\ ConvertIdle /\ MetricsIdle

\* a loop body without the except clause: an exception leaves process_bibcodes
ProcessBibcodeUncaught ==
    /\ pc = "loop"
    /\ idx <= Len(bibcodes)
    /\ \E read \in _read_next_bibcode(bibcodes[idx]),
          nonbib_ok \in BOOLEAN, metrics_ok \in BOOLEAN :
         LET t == try_bibcode(read, compute_metrics, cache, today, nonbib_ok, metrics_ok)
         IN  /\ nonbib_protos' = nonbib_protos \o t.nonbib
             /\ metrics_protos' = metrics_protos \o t.metrics
             /\ outcome' = Append(outcome, t.exc)
             /\ pc' = IF t.exc # "" THEN "raised" ELSE pc
    /\ idx' = idx + 1
    /\ UNCHANGED <<linkVars, mergeVars, convertVars, metricsVars, cacheVars,
                   bibcodes, compute_metrics, output_nonbib, output_metrics>>

\* lines 36-48: the loop body for bibcodes[idx]
ProcessBibcode ==
    /\ pc = "loop"
    /\ idx <= Len(bibcodes)
    /\ \E read \in _read_next_bibcode(bibcodes[idx]),
          nonbib_ok \in BOOLEAN, metrics_ok \in BOOLEAN :
         LET t == try_bibcode(read, compute_metrics, cache, today, nonbib_ok, metrics_ok)
         IN  /\ nonbib_protos' = nonbib_protos \o t.nonbib
             /\ metrics_protos' = metrics_protos \o t.metrics
             /\ outcome' = Append(outcome, t.exc)
    /\ idx' = idx + 1
    /\ UNCHANGED <<pc, linkVars, mergeVars, convertVars, metricsVars, cacheVars,
                   bibcodes, compute_metrics, output_nonbib, output_metrics>>

\* lines 49-50: both batches are handed to the output tasks
Dispatch ==
    /\ pc = "loop"
    /\ idx > Len(bibcodes)
    /\ output_nonbib' = Append(output_nonbib, nonbib_protos)
    /\ output_metrics' = Append(output_metrics, metrics_protos)
    /\ pc' = "done"
    /\ UNCHANGED <<linkVars, mergeVars, convertVars, metricsVars, cacheVars,
                   bibcodes, compute_metrics, idx, nonbib_protos, metrics_protos,
                   outcome>>

Next == ProcessBibcode \/ Dispatch

Spec == Init /\ [][Next]_vars

----------------------------------------------------------------------------
(* Properties of process_bibcodes *)

\* the indexes of the batch's records that carry bibcode b
NonbibFor(batch, b)  == {k \in 1..Len(batch) : batch[k]["bibcode"] = PyStr(b)}
MetricsFor(batch, b) == {k \in 1..Len(batch) : batch[k].bibcode = b}
\* the iterations done so far for bibcode b that raised nothing
Succeeded(b) == {j \in 1..Len(outcome) : bibcodes[j] = b /\ outcome[j] = ""}
OccursOnce(i) == \A j \in 1..Len(bibcodes) : bibcodes[j] = bibcodes[i] => j = i

\* C1: a failure for one bibcode never ends the loop: whenever the loop is over,
\* every bibcode has been processed and both batches have been handed to the
\* output tasks; and every bibcode that did not fail has its nonbib record
\* (and, with compute_metrics, its metrics record) in the batches.
C1_FailuresIsolated ==
    /\ pc \in {"loop", "done"}
    /\ \A i \in 1..Len(outcome) :
          LET b == bibcodes[i]
          IN  outcome[i] = "" =>
                /\ Cardinality(NonbibFor(nonbib_protos, b)) >= Cardinality(Succeeded(b))
                /\ compute_metrics =>
                     Cardinality(MetricsFor(metrics_protos, b)) >= Cardinality(Succeeded(b))
    /\ pc # "loop" =>
          /\ Len(outcome) = Len(bibcodes)
          /\ output_nonbib = <<nonbib_protos>>
          /\ output_metrics = <<metrics_protos>>

\* a run in which the first bibcode failed and the second one went through
C1_Witness ==
    /\ pc = "done" /\ compute_metrics /\ Len(bibcodes) = 2
    /\ outcome[1] # "" /\ outcome[2] = ""
    /\ NonbibFor(output_nonbib[1], bibcodes[2]) # {}
    /\ MetricsFor(output_metrics[1], bibcodes[2]) # {}

\* C2: a bibcode whose conversion or metrics computation failed has no record
\* in either batch handed to the output tasks.
C2_FailedBibcodeDropped ==
    pc = "done" =>
        \A i \in 1..Len(bibcodes) :
            (outcome[i] # "" /\ OccursOnce(i)) =>
                /\ NonbibFor(output_nonbib[1], bibcodes[i]) = {}
                /\ MetricsFor(output_metrics[1], bibcodes[i]) = {}

----------------------------------------------------------------------------
(* Properties of _convert *)

ConvertReturned == pc = "converted" /\ converted.exc = ""

IsLinkTyped(filetype) ==
    /\ "extra_values" \in DOMAIN data_files[filetype]
    /\ "link_type" \in DOMAIN data_files[filetype].extra_values

\* a field the converter only copies: no extra_values, and not one of the
\* intermediate keys dropped at the end
IsPassThrough(filetype) ==
    /\ "extra_values" \notin DOMAIN data_files[filetype]
    /\ filetype \notin not_needed

HasBoolDefault(filetype) == data_files[filetype].default_value.t = "bool"

IsWrapped(filetype, raw) == raw.t = "dict" /\ filetype \in DOMAIN raw.v

\* the value compared with the default: the raw value, or for a field
\* with a boolean default the value wrapped in it
EffectiveValue(filetype, raw) ==
    IF HasBoolDefault(filetype) THEN raw.v[filetype] ELSE raw

CopyDefault(filetype) ==
    /\ "copy_default" \in DOMAIN data_files[filetype]
    /\ data_files[filetype].copy_default

\* C3: a field at its default value (copy_default unset) never appears in the
\* canonical record; a pass-through field off its default (or with
\* copy_default) appears with the raw value.
C3_DefaultSuppression ==
    ConvertReturned =>
        \A filetype \in DOMAIN passed :
            LET raw == passed[filetype]
                usable == HasBoolDefault(filetype) => IsWrapped(filetype, raw)
                atDefault == PyEq(EffectiveValue(filetype, raw),
                                  data_files[filetype].default_value)
            IN  usable =>
                  /\ (atDefault /\ ~CopyDefault(filetype))
                        => filetype \notin DOMAIN converted.val
                  /\ ((~atDefault \/ CopyDefault(filetype)) /\ IsPassThrough(filetype))
                        => /\ filetype \in DOMAIN converted.val
                           /\ converted.val[filetype] = raw

DataRows(rows) == SelectSeq(rows, LAMBDA r : r.link_type = s_DATA)

RECURSIVE SumOfCounts(_)
SumOfCounts(rows) ==
    IF rows = <<>> THEN 0 ELSE rows[1].item_count + SumOfCounts(Tail(rows))

\* C6: data holds exactly one "SUBTYPE:COUNT" entry per DATA row of the merged
\* data_links_rows, COUNT being that row's item_count, sorted ascending, and
\* total_link_counts is the sum of those counts.
C6_DataSummaryOfMergedRows ==
    ConvertReturned =>
        LET rows == DataRows(converted.val["data_links_rows"])
            entries == [k \in 1..Len(rows) |->
                          rows[k].link_sub_type \o s_colon \o str(rows[k].item_count)]
            data == converted.val["data"]
        IN  /\ Len(data) = Len(rows)
            /\ {data[k] : k \in 1..Len(data)} = {entries[k] : k \in 1..Len(rows)}
            /\ \A k \in 1..(Len(data) - 1) : ~StrLess(data[k + 1], data[k])
            /\ converted.val["total_link_counts"] = SumOfCounts(rows)

IsFlagOrMap(x) == x.t \in {"bool", "dict"}

\* the raw value of a link-typed field has an unexpected shape
MalformedLinkValue(filetype, raw) ==
    LET value == IF HasBoolDefault(filetype) /\ IsWrapped(filetype, raw)
                 THEN raw.v[filetype] ELSE raw
    IN  \/ value.t \notin {"bool", "dict", "list"}
        \/ value.t = "list" /\ \E k \in 1..Len(value.v) : ~IsFlagOrMap(value.v[k])

\* every map given to the link-typed field can be given a link_sub_type
MapsHaveSubType(filetype, raw) ==
    \/ "link_sub_type" \in DOMAIN data_files[filetype].extra_values
    \/ raw.t # "list"
    \/ \A k \in 1..Len(raw.v) :
           raw.v[k].t = "dict" => "link_sub_type" \in DOMAIN raw.v[k].v

\* C7: a link-typed field whose non-default raw value has an unexpected shape
\* is reported, and the conversion still returns the canonical record.
C7_MalformedLinkValueSkipped ==
    (/\ pc = "converted"
     /\ \E filetype \in DOMAIN passed :
            IsLinkTyped(filetype) /\ MalformedLinkValue(filetype, passed[filetype])
     /\ \A filetype \in DOMAIN passed :
            IsLinkTyped(filetype) => MapsHaveSubType(filetype, passed[filetype]))
    => /\ converted.exc = ""
       /\ converted.logged >= 1

\* the values of a link-typed raw value that go to the row builder
RoutedValues(filetype, raw) ==
    LET value == IF HasBoolDefault(filetype) THEN raw.v[filetype] ELSE raw
    IN  IF PyEq(value, data_files[filetype].default_value) THEN {}
        ELSE IF value.t = "list" THEN {value.v[k] : k \in 1..Len(value.v)}
        ELSE {value}

IsFlagTrueOrMap(x) == x = PyBool(TRUE) \/ x.t = "dict"

HasUrlAndTitle(row) ==
    /\ {"url", "title"} \subseteq DOMAIN row
    /\ Len(row.url) >= 1
    /\ Len(row.title) >= 1

\* C8: for raw values that are the flag true or maps, every row the builder
\* returns and every row of the canonical record's data_links_rows has at
\* least one url and one title.
C8_UrlAndTitleNonEmpty ==
    (/\ pc = "converted"
     /\ \A filetype \in DOMAIN passed :
            IsLinkTyped(filetype) =>
               /\ HasBoolDefault(filetype) => IsWrapped(filetype, passed[filetype])
               /\ passed[filetype].t \in {"dict", "list"}
               /\ \A x \in RoutedValues(filetype, passed[filetype]) : IsFlagTrueOrMap(x))
    => /\ \A filetype \in DOMAIN passed :
            IsLinkTyped(filetype) =>
               \A x \in RoutedValues(filetype, passed[filetype]) :
                  LET d == _convert_data_link(filetype, x)
                  IN  d.exc = "" => HasUrlAndTitle(d.val)
       /\ converted.exc = "" =>
            \A k \in 1..Len(converted.val["data_links_rows"]) :
                HasUrlAndTitle(converted.val["data_links_rows"][k])

----------------------------------------------------------------------------
(* Properties of _convert_data_link *)

\* C9: link_type is the definition's; link_sub_type is the value's own when
\* it has one, else the definition's; and a map with a nested
\* subparts.item_count gets a space and that count appended.
C9_LinkSubTypeResolution ==
    (pc = "linked" /\ lk_d.exc = "") =>
        LET ev  == data_files[lk_filetype].extra_values
            own == lk_value.t = "dict" /\ "link_sub_type" \in DOMAIN lk_value.v
            suffix == IF /\ lk_value.t = "dict"
                         /\ "subparts" \in DOMAIN lk_value.v
                         /\ "item_count" \in DOMAIN lk_value.v.subparts
                      THEN s_space \o str(lk_value.v.subparts.item_count)
                      ELSE <<>>
        IN  /\ lk_d.val.link_type = ev.link_type
            /\ own => lk_d.val.link_sub_type = lk_value.v.link_sub_type \o suffix
            /\ (~own /\ "link_sub_type" \in DOMAIN ev)
                  => lk_d.val.link_sub_type = ev.link_sub_type \o suffix

----------------------------------------------------------------------------
(* Properties of _merge_data_links *)

Pair(r) == <<r.link_type, r.link_sub_type>>

\* the indexes of rows at which a (link_type, link_sub_type) pair first occurs
FirstOccurrences(rows) ==
    {i \in 1..Len(rows) : \A j \in 1..(i - 1) : Pair(rows[j]) # Pair(rows[i])}

GroupOf(rows, p) == SelectSeq(rows, LAMBDA r : Pair(r) = p)

RECURSIVE Flatten(_)
Flatten(ss) == IF ss = <<>> THEN <<>> ELSE ss[1] \o Flatten(Tail(ss))

RECURSIVE Total(_)
Total(ns) == IF ns = <<>> THEN 0 ELSE ns[1] + Total(Tail(ns))

C5_MergeIdempotent ==
    pc = "remerged" => (rows_again.exc = "" /\ rows_again.val = rows_out.val)

\* the first merge did combine rows
C5_Witness ==
    /\ pc = "remerged"
    /\ Len(rows_out.val) < Len(rows_in)
    /\ rows_again.val = rows_out.val

----------------------------------------------------------------------------
(* Properties of _compute_metrics *)

\* C10: citation_num and reference_num are the sizes of the snapshot's
\* citing and referenced lists of the bibcode (0 when it has none),
\* rn_citation_data has one entry per citing bibcode, refereed_citations
\* are exactly the citing bibcodes in the refereed set, and
\* author_num = max(number of authors, 1).
C10_MetricsCounts ==
    (pc = "computed" /\ met.exc = "") =>
        LET b      == m_d["canonical"].v
            citing == IF b \in DOMAIN cache.citation THEN cache.citation[b] ELSE <<>>
            refs   == IF b \in DOMAIN cache.reference THEN cache.reference[b] ELSE <<>>
            m      == met.val
            authors == IF "author" \in DOMAIN m_d THEN Len(m_d["author"].v) ELSE 0
        IN  /\ m.citation_num = Len(citing)
            /\ m.reference_num = Len(refs)
            /\ Len(m.rn_citation_data) = Len(citing)
            /\ \A k \in 1..Len(citing) : m.rn_citation_data[k].bibcode = citing[k]
            /\ {m.refereed_citations[k] : k \in 1..Len(m.refereed_citations)}
                  = {c \in {citing[k] : k \in 1..Len(citing)} : c \in cache.refereed}
            /\ m.refereed_citation_num = Len(m.refereed_citations)
            /\ m.refereed_citation_num
                  = Cardinality({k \in 1..Len(citing) : citing[k] \in cache.refereed})
            /\ m.refereed_citation_num <= m.citation_num
            /\ m.author_num = (IF authors > 1 THEN authors ELSE 1)

\* two citing bibcodes, one of them refereed, and no author
C10_Witness ==
    /\ pc = "computed" /\ met.exc = ""
    /\ met.val.citation_num = 2
    /\ met.val.refereed_citation_num = 1
    /\ met.val.reference_num = 3
    /\ "author" \in DOMAIN m_d /\ m_d["author"].v = <<>>

====
